---- MODULE Spec2Model ----
(***************************************************************************)
(* checklist.py of scikit-bio: main runs four RepoValidators over the      *)
(* directory tree under 'skbio'.  The model keeps                          *)
(*   - a dotted or os.sep-separated path as the sequence of its segments   *)
(*     (len(p.split('.')) is Len(p)),                                      *)
(*   - a file name as its splitext pair (base, ext),                       *)
(*   - a Python module's source as the sequence of its top-level           *)
(*     statements (what ast.parse + ast.iter_child_nodes yield), or as     *)
(*     unparseable,                                                        *)
(*   - a report line as a record of its format string and its argument.    *)
(* One step of the model is one iteration of validate's os.walk loop (the  *)
(* whole _validate of one directory), one call of validate, or one return  *)
(* of validate to its caller.  Two further drivers call _add_imports and   *)
(* _parse_file directly, one call per step.                                *)
(***************************************************************************)
EXTENDS Integers, Sequences, FiniteSets, TLC

VARIABLES
    tree,         \* the file system under the working directory (never written)
    validators,   \* the validator objects, in the order validate is called on them
    vi,           \* index of the validator whose validate is running or next to run
    pc,           \* "call" | "walk" | "done" | "raised"; "add" | "parse" in the drivers
    todo,         \* os.walk: the directories still to be yielded, next one first
    invalids,     \* validate's local list
    _imports,     \* APIRegressionValidator._imports
    return_code,  \* main's return_code
    stderr,       \* the lines written to sys.stderr
    results,      \* the (success, msg) pairs validate has returned so far
    snapshots,    \* history: _imports as it was at each return of validate
    checked,      \* history: _minimal_import has been called in this validate call
    contribs,     \* log of the _add_imports driver: the calls it has made
    parsed        \* log of the _parse_file driver: the calls it has made

vars == <<tree, validators, vi, pc, todo, invalids, _imports, return_code,
          stderr, results, snapshots, checked, contribs, parsed>>

(***************************************************************************)
(* Bounds of the model.                                                    *)
(***************************************************************************)
\* Relative imports 'from ..x import y' are drawn with levels 1..MaxLevel.
MaxLevel == 3
\* The number of validate calls made on one APIRegressionValidator object
\* by the repeated-run driver.
MaxRuns == 2
\* The number of _add_imports calls made by the _add_imports driver.
MaxCalls == 3
\* The number of _parse_file calls made by the _parse_file driver.
MaxParses == 2

(***************************************************************************)
(* Paths.                                                                  *)
(***************************************************************************)
Last(s) == s[Len(s)]

Front(s) == SubSeq(s, 1, Len(s) - 1)

\* os.path.split(p)[0] for a relative path without a trailing separator:
\* 'skbio/a' -> 'skbio', 'skbio' -> '', '' -> ''.
SplitHead(p) == IF p = <<>> THEN <<>> ELSE Front(p)

\* os.path.split(p)[1]: the last component ('' for '').
SplitTail(p) == IF p = <<>> THEN "" ELSE Last(p)

RECURSIVE DropLevels(_, _)
\* The while loop of _parse_file: os.path.split(prefix)[0], extra times.
DropLevels(prefix, extra) ==
    IF extra > 0 THEN DropLevels(SplitHead(prefix), extra - 1) ELSE prefix

\* (prefix.replace(os.sep, ".") + "." + module).split("."): an empty prefix
\* leaves the string starting with ".", whose first segment is "".
DottedPrefix(prefix, module) ==
    IF prefix = <<>> THEN <<"">> \o module ELSE prefix \o module

(***************************************************************************)
(* Source files: top-level statements.                                     *)
(***************************************************************************)
\* ast.Import: 'import a.b.c' (names are dotted paths).
Imp(path) ==
    [kind |-> "Import", level |-> 0, hasModule |-> FALSE, module |-> <<>>,
     names |-> <<path>>]

\* ast.ImportFrom, absolute: 'from a.b import n'.
From(module, name) ==
    [kind |-> "ImportFrom", level |-> 0, hasModule |-> TRUE, module |-> module,
     names |-> << <<name>> >>]

\* ast.ImportFrom, relative: 'from ..m import n'; node.module is None for
\* 'from . import n' (hasModule = FALSE).
Rel(level, hasModule, module, name) ==
    [kind |-> "ImportFrom", level |-> level, hasModule |-> hasModule,
     module |-> module, names |-> << <<name>> >>]

\* Any other top-level node (a def, a class, an if), with an import nested in it.
Other(path) ==
    [kind |-> "Other", level |-> 0, hasModule |-> FALSE, module |-> <<>>,
     names |-> <<path>>]

\* A source text ast.parse accepts, with these top-level nodes.
Parses(body) == [parses |-> TRUE, body |-> body]

\* A source text on which ast.parse raises SyntaxError.
Unparseable == [parses |-> FALSE, body |-> <<>>]

(***************************************************************************)
(* Directory entries.  x: os.access(fp, os.X_OK); size: os.path.getsize;   *)
(* gone: the entry is listed by os.walk but open and stat fail on it (a    *)
(* dangling symbolic link, a file removed during the walk).                *)
(***************************************************************************)
File(base, ext, x, size, gone, src) ==
    [base |-> base, ext |-> ext, x |-> x, size |-> size, gone |-> gone, src |-> src]

Py(base, src) == File(base, ".py", FALSE, 1, FALSE, src)

\* A membership test that lets a directory without files pass.
HasInitOrNoFiles(files) ==
    \/ files = <<>>
    \/ \E i \in 1..Len(files) : files[i].base = "__init__" /\ files[i].ext = ".py"

\* '__init__.py' in files
HasInit(files) ==
    \E i \in 1..Len(files) : files[i].base = "__init__" /\ files[i].ext = ".py"

(***************************************************************************)
(* Flagged items and report lines.  Every _validate returns strings: a     *)
(* directory path, a file path, or "%s: %s => %s" % (fp, import_,          *)
(* substitute); an item keeps the parts of the string.                     *)
(***************************************************************************)
NoPath == <<>>

\* os.path.join(root, f) for a directory entry f.
FilePath(root, f) == [dir |-> root, base |-> f.base, ext |-> f.ext]

DirPath(root) == [dir |-> root, base |-> "", ext |-> ""]

Item(fp, used, minimal) == [fp |-> fp, used |-> used, minimal |-> minimal]

NoItem == Item(DirPath(NoPath), NoPath, NoPath)

\* msg.append(self.reason + ':')
ReasonLine(reason) == [fmt |-> "%s:", reason |-> reason, item |-> NoItem]

\* msg.append("    %s" % invalid)
ItemLine(invalid) == [fmt |-> "    %s", reason |-> "", item |-> invalid]

\* The empty line that '\n\n' leaves after the last line of a report.
BlankLine == [fmt |-> "", reason |-> "", item |-> NoItem]

(***************************************************************************)
(* APIRegressionValidator._parse_file.                                     *)
(***************************************************************************)
\* prefix + node.module for one ast.ImportFrom node, split at the dots.
ImportFromBase(node, root) ==
    IF node.level > 0
    THEN DottedPrefix(DropLevels(root, node.level - 1), node.module)
    ELSE node.module

\* What one top-level node adds to imports.
NodeImports(node, root) ==
    IF node.kind = "Import" THEN node.names
    ELSE IF node.kind = "ImportFrom"
    THEN [i \in 1..Len(node.names) |-> ImportFromBase(node, root) \o node.names[i]]
    ELSE <<>>

RECURSIVE AllImports(_, _)
AllImports(body, root) ==
    IF body = <<>> THEN <<>>
    ELSE NodeImports(Head(body), root) \o AllImports(Tail(body), root)

\* prefix + node.module raises TypeError when node.module is None.
NodeRaises(node) == node.kind = "ImportFrom" /\ ~node.hasModule

\* A filter that keeps every import.
KeepsAll(import_) == TRUE

\* if import_.split(".")[0] == "skbio"
IsSkbio(import_) == Head(import_) = "skbio"

\* open, ast.parse or the string concatenation raises: no try/except anywhere.
ParseRaises(f) ==
    \/ f.gone
    \/ ~f.src.parses
    \/ \E i \in 1..Len(f.src.body) : NodeRaises(f.src.body[i])

\* The list _parse_file returns when it returns.
_parse_file(f, root) == SelectSeq(AllImports(f.src.body, root), IsSkbio)

(***************************************************************************)
(* APIRegressionValidator._add_imports and _minimal_import.  The registry  *)
(* self._imports is a function from keys (symbols) to paths.               *)
(***************************************************************************)
\* A candidate that is always the import path itself.
CandidateAsIs(import_, package) == import_

\* value, for one import_ of a file of package.
Candidate(import_, package) ==
    IF Len(package) + 1 < Len(import_)
    THEN package \o <<Last(import_)>>
    ELSE import_

\* An update that stores every value offered.
OfferAlways(reg, key, value) ==
    IF key \in DOMAIN reg THEN [reg EXCEPT ![key] = value] ELSE (key :> value) @@ reg

\* An update that also replaces a stored path of the same length.
OfferNotShorter(reg, key, value) ==
    IF key \in DOMAIN reg
    THEN IF Len(reg[key]) >= Len(value) THEN [reg EXCEPT ![key] = value] ELSE reg
    ELSE (key :> value) @@ reg

\* An update that keeps whatever was stored first.
OfferFirst(reg, key, value) ==
    IF key \in DOMAIN reg THEN reg ELSE (key :> value) @@ reg

\* The if/else on 'key in self._imports' for one value.
Offer(reg, key, value) ==
    IF key \in DOMAIN reg
    THEN IF Len(reg[key]) > Len(value) THEN [reg EXCEPT ![key] = value] ELSE reg
    ELSE (key :> value) @@ reg

RECURSIVE _add_imports(_, _, _)
_add_imports(reg, imports, package) ==
    IF imports = <<>> THEN reg
    ELSE _add_imports(Offer(reg, Last(Head(imports)), Candidate(Head(imports), package)),
                      Tail(imports), package)

\* A lookup that compares the paths themselves instead of their lengths.
_minimal_import_by_path(reg, import_) ==
    LET key == Last(import_) IN
    IF key \notin DOMAIN reg THEN NoPath
    ELSE IF reg[key] = import_ THEN NoPath
    ELSE reg[key]

\* _minimal_import returns None (NoPath here) or the substitute.
_minimal_import(reg, import_) ==
    LET key == Last(import_) IN
    IF key \notin DOMAIN reg THEN NoPath
    ELSE IF Len(reg[key]) = Len(import_) THEN NoPath
    ELSE reg[key]

(***************************************************************************)
(* The four _validate methods, for one directory yielded by os.walk.  Each *)
(* returns [raised, dirs, invalid, reg, checked]: whether an exception     *)
(* left it, dirs as it leaves it to os.walk, the list it returns, and for  *)
(* APIRegressionValidator self._imports as it leaves it and whether it     *)
(* called _minimal_import.                                                 *)
(***************************************************************************)
Outcome(raised, dirs, invalid, reg, chk) ==
    [raised |-> raised, dirs |-> dirs, invalid |-> invalid, reg |-> reg, checked |-> chk]

\* InitValidator.__init__: the default skip_dirs.
skip_dirs == {"data", "__pycache__"}

\* ExecPermissionValidator.__init__: the default extensions.
extensions == {".py", ".pyx", ".h", ".c"}

\* GeneratedCythonValidator.__init__: the defaults.
cython_ext == ".pyx"

c_ext == ".c"

\* A filter that removes 'data' only.
NotData(name) == name # "data"

\* for skip_dir in self.skip_dirs: if skip_dir in dirs: dirs.remove(skip_dir)
NotSkipped(name) == name \notin skip_dirs

InitValidator_validate(root, dirs, files) ==
    Outcome(FALSE, SelectSeq(dirs, NotSkipped),
            IF HasInit(files) THEN <<>> ELSE <<Item(DirPath(root), NoPath, NoPath)>>,
            <<>>, FALSE)

RECURSIVE ExecInvalid(_, _)
\* The loop of ExecPermissionValidator._validate; os.access is False for an
\* entry that no longer resolves.
ExecInvalid(root, files) ==
    IF files = <<>> THEN <<>>
    ELSE LET f == Head(files) IN
         (IF f.ext \in extensions /\ f.x /\ ~f.gone
          THEN <<Item(FilePath(root, f), NoPath, NoPath)>> ELSE <<>>)
         \o ExecInvalid(root, Tail(files))

ExecPermissionValidator_validate(root, dirs, files) ==
    Outcome(FALSE, dirs, ExecInvalid(root, files), <<>>, FALSE)

\* ext_to_base[ext]: the files with this extension, in the order listed.
ExtToBase(files, ext) ==
    LET HasExt(f) == f.ext = ext IN SelectSeq(files, HasExt)

\* The generated C file paired with a Cython file, if listed.
CFilesOf(files, base) ==
    {i \in 1..Len(files) : files[i].ext = c_ext /\ files[i].base = base}

\* os.path.getsize(c_fp) raises OSError.
GetsizeRaises(files, pyx) ==
    \E i \in CFilesOf(files, pyx.base) : files[i].gone

\* cython_base not in ext_to_base[c_ext], or the C file is empty.
CythonFlagged(files, pyx) ==
    \/ CFilesOf(files, pyx.base) = {}
    \/ \E i \in CFilesOf(files, pyx.base) : files[i].size <= 0

RECURSIVE CythonLoop(_, _, _, _)
\* The second loop of GeneratedCythonValidator._validate over the Cython
\* files: [raised, invalid].
CythonLoop(root, files, pyxs, acc) ==
    IF pyxs = <<>> THEN [raised |-> FALSE, invalid |-> acc]
    ELSE LET pyx == Head(pyxs) IN
         IF CFilesOf(files, pyx.base) # {} /\ GetsizeRaises(files, pyx)
         THEN [raised |-> TRUE, invalid |-> acc]
         ELSE CythonLoop(root, files, Tail(pyxs),
                         IF CythonFlagged(files, pyx)
                         THEN Append(acc, Item(FilePath(root, pyx), NoPath, NoPath))
                         ELSE acc)

GeneratedCythonValidator_validate(root, dirs, files) ==
    LET r == CythonLoop(root, files, ExtToBase(files, cython_ext), <<>>) IN
    Outcome(r.raised, dirs, r.invalid, <<>>, FALSE)

\* One iteration of the first loop of APIRegressionValidator._validate, on
\* st = [raised, reg, tests]: tests is test_imports.
ApiFile(st, f, root) ==
    IF st.raised \/ f.ext # ".py" THEN st
    ELSE IF ParseRaises(f) THEN [st EXCEPT !.raised = TRUE]
    ELSE LET imports == _parse_file(f, root)
             temp == root \o <<f.base>>
         IN [raised |-> FALSE,
             reg |-> IF Last(temp) = "__init__"
                     THEN _add_imports(st.reg, imports, Front(temp))
                     ELSE st.reg,
             tests |-> IF SplitTail(root) = "tests"
                       THEN Append(st.tests, [fp |-> FilePath(root, f), imports |-> imports])
                       ELSE st.tests]

RECURSIVE ApiFiles(_, _, _)
ApiFiles(st, files, root) ==
    IF files = <<>> THEN st
    ELSE ApiFiles(ApiFile(st, Head(files), root), Tail(files), root)

RECURSIVE ImportErrors(_, _, _)
\* The inner loop over one test file's imports.
ImportErrors(reg, fp, imports) ==
    IF imports = <<>> THEN <<>>
    ELSE LET substitute == _minimal_import(reg, Head(imports)) IN
         (IF substitute # NoPath
          THEN <<Item(fp, Head(imports), substitute)>> ELSE <<>>)
         \o ImportErrors(reg, fp, Tail(imports))

RECURSIVE TestErrors(_, _)
\* The second loop of APIRegressionValidator._validate.
TestErrors(reg, tests) ==
    IF tests = <<>> THEN <<>>
    ELSE ImportErrors(reg, Head(tests).fp, Head(tests).imports)
         \o TestErrors(reg, Tail(tests))

\* Some test file of test_imports has an import to look up.
AnyImport(tests) == \E i \in 1..Len(tests) : tests[i].imports # <<>>

APIRegressionValidator_validate(reg, root, dirs, files) ==
    LET st == ApiFiles([raised |-> FALSE, reg |-> reg, tests |-> <<>>], files, root) IN
    IF st.raised THEN Outcome(TRUE, dirs, <<>>, st.reg, FALSE)
    ELSE Outcome(FALSE, dirs, TestErrors(st.reg, st.tests), st.reg, AnyImport(st.tests))

\* The class attribute reason of each validator (the last one without the
\* backquotes the source puts around A and B).
reason(validator) ==
    CASE validator = "InitValidator" -> "Directories missing init files"
      [] validator = "ExecPermissionValidator" -> "Library code with execute permissions"
      [] validator = "GeneratedCythonValidator" -> "Cython code missing generated C code"
      [] validator = "APIRegressionValidator" ->
             "The following tests import A but should import B (file: A => B)"

\* self._validate(root, dirs, files), dispatched on the object's class.
_validate(validator, reg, root, dirs, files) ==
    CASE validator = "InitValidator" -> InitValidator_validate(root, dirs, files)
      [] validator = "ExecPermissionValidator" ->
             ExecPermissionValidator_validate(root, dirs, files)
      [] validator = "GeneratedCythonValidator" ->
             GeneratedCythonValidator_validate(root, dirs, files)
      [] validator = "APIRegressionValidator" ->
             APIRegressionValidator_validate(reg, root, dirs, files)

(***************************************************************************)
(* The file systems the runs are drawn from.  A tree maps each existing    *)
(* directory to what os.walk lists in it: dirs and files, in listing       *)
(* order.  No directory at all: 'skbio' does not exist.                    *)
(***************************************************************************)
\* main: root = 'skbio'
ROOT == <<"skbio">>

Listing(dirs, files) == [dirs |-> dirs, files |-> files]

NoTree == [d \in {} |-> Listing(<<>>, <<>>)]

EmptyTree == ROOT :> Listing(<<>>, <<>>)

\* A directory's __init__.py: absent, or present with one of srcs.
InitOpt(srcs) == {<<>>} \cup {<<Py("__init__", s)>> : s \in srcs}

ModOpt(base, srcs) == {<<>>} \cup {<<Py(base, s)>> : s \in srcs}

RootInitSrcs ==
    { Parses(<<>>),
      Parses(<<From(<<"skbio", "b", "mod">>, "foo")>>) }

AInitSrcs ==
    { Parses(<<>>),
      Parses(<<Rel(1, TRUE, <<"sub", "mod">>, "foo"), Imp(<<"numpy">>)>>) }

TestsInitSrcs ==
    { Parses(<<>>),
      Parses(<<From(<<"skbio", "a", "sub", "mod">>, "bar")>>) }

TestSrcs ==
    { Parses(<<From(<<"skbio", "b", "mod">>, "foo")>>),
      Parses(<<From(<<"skbio">>, "foo"), From(<<"numpy">>, "bar")>>),
      Parses(<<From(<<"skbio", "x">>, "foo")>>),
      Parses(<<Imp(<<"skbio", "a", "sub", "mod", "bar">>),
               Other(<<"skbio", "b", "mod", "foo">>)>>),
      Unparseable }
    \cup { Parses(<<Rel(l, TRUE, <<"b", "mod">>, "foo")>>) : l \in 1..MaxLevel }

BInitSrcs ==
    { Parses(<<>>),
      Parses(<<From(<<"skbio", "b", "mod">>, "foo")>>),
      Parses(<<Rel(1, FALSE, <<>>, "mod")>>) }
    \cup { Parses(<<Rel(l, TRUE, <<"mod">>, "foo"), Rel(l, TRUE, <<"mod">>, "bar")>>) :
           l \in 1..MaxLevel }

BModSrcs ==
    { Parses(<<From(<<"skbio", "a", "sub", "mod">>, "bar")>>),
      Unparseable }

\* Files that are not Python modules: a Cython file and its generated C file.
Pyx == File("ext", ".pyx", FALSE, 1, FALSE, Unparseable)

CFile(x, size, gone) == File("ext", ".c", x, size, gone, Unparseable)

ExtFiles ==
    { <<>>,
      <<Pyx>>,
      <<Pyx, CFile(FALSE, 0, FALSE)>>,
      <<CFile(TRUE, 1, FALSE), Pyx>>,
      <<Pyx, CFile(FALSE, 1, TRUE)>> }

\* skbio/{a/{tests},b}, the two subpackages listed in either order.
LibraryTrees ==
    { (ROOT :> Listing(order, rootFiles))
      @@ (<<"skbio", "a">> :> Listing(<<"tests">>, aFiles))
      @@ (<<"skbio", "a", "tests">> :> Listing(<<>>, tInit \o tTest))
      @@ (<<"skbio", "b">> :> Listing(<<>>, bInit \o bMod \o ext)) :
        order \in {<<"a", "b">>, <<"b", "a">>},
        rootFiles \in InitOpt(RootInitSrcs),
        aFiles \in InitOpt(AInitSrcs),
        tInit \in InitOpt(TestsInitSrcs),
        tTest \in ModOpt("test_x", TestSrcs),
        bInit \in InitOpt(BInitSrcs),
        bMod \in ModOpt("mod", BModSrcs),
        ext \in ExtFiles }

\* A package marker without statements, or none.
PlainInit == InitOpt({Parses(<<>>)})

\* skbio/{data/{sub},a/{__pycache__,tests}}: directories InitValidator skips,
\* with a directory inside one of them, next to directories it visits.
DataTrees ==
    { (ROOT :> Listing(order, rootFiles))
      @@ (<<"skbio", "data">> :> Listing(<<"sub">>, dataFiles))
      @@ (<<"skbio", "data", "sub">> :> Listing(<<>>, <<>>))
      @@ (<<"skbio", "a">> :> Listing(<<"__pycache__", "tests">>, aFiles))
      @@ (<<"skbio", "a", "__pycache__">> :> Listing(<<>>, <<>>))
      @@ (<<"skbio", "a", "tests">> :> Listing(<<>>, tFiles)) :
        order \in {<<"data", "a">>, <<"a", "data">>},
        rootFiles \in PlainInit,
        dataFiles \in PlainInit,
        aFiles \in PlainInit,
        tFiles \in PlainInit }

Trees == {NoTree, EmptyTree} \cup LibraryTrees \cup DataTrees

(***************************************************************************)
(* main and RepoValidator.validate.                                        *)
(***************************************************************************)
\* main: the validators list.
MainValidators ==
    <<"InitValidator", "ExecPermissionValidator", "GeneratedCythonValidator",
      "APIRegressionValidator">>

\* APIRegressionValidator.__init__: self._imports = {}
EmptyRegistry == [k \in {} |-> NoPath]

\* ValidateResult with the items appended newest first.
ValidateResultReversed(validator, invs) ==
    IF invs # <<>>
    THEN [success |-> FALSE,
          msg |-> <<ReasonLine(reason(validator))>>
                  \o [i \in 1..Len(invs) |-> ItemLine(invs[Len(invs) + 1 - i])]]
    ELSE [success |-> TRUE, msg |-> <<>>]

\* validate, lines 87-96: (success, msg) from invalids.
ValidateResult(validator, invs) ==
    IF invs # <<>>
    THEN [success |-> FALSE,
          msg |-> <<ReasonLine(reason(validator))>>
                  \o [i \in 1..Len(invs) |-> ItemLine(invs[i])]]
    ELSE [success |-> TRUE, msg |-> <<>>]

\* main, lines 43-46: what one result adds to sys.stderr.
Written(result) ==
    IF ~result.success THEN result.msg \o <<BlankLine>> ELSE <<>>

Init ==
    /\ tree \in Trees
    /\ validators = MainValidators
    /\ vi = 1
    /\ pc = "call"
    /\ todo = <<>>
    /\ invalids = <<>>
    /\ _imports = EmptyRegistry
    /\ return_code = 0
    /\ stderr = <<>>
    /\ results = <<>>
    /\ snapshots = <<>>
    /\ checked = FALSE
    /\ contribs = <<>>
    /\ parsed = <<>>

\* validator.validate(root) is entered: os.walk(root) starts; it yields
\* nothing when root is not a directory (its onerror is None).
CallValidate ==
    /\ pc = "call"
    /\ pc' = "walk"
    /\ todo' = IF ROOT \in DOMAIN tree THEN <<ROOT>> ELSE <<>>
    /\ invalids' = <<>>
    /\ checked' = FALSE
    /\ UNCHANGED <<tree, validators, vi, _imports, return_code, stderr, results,
                   snapshots, contribs, parsed>>

\* One iteration of 'for root, dirs, files in os.walk(root)': os.walk yields
\* the next directory, _validate runs on it, and os.walk goes on (top-down)
\* with the subdirectories _validate left in dirs.  An exception raised in
\* _validate is caught nowhere: it leaves validate and main.
WalkStep ==
    /\ pc = "walk"
    /\ todo # <<>>
    /\ LET root == Head(todo)
           out == _validate(validators[vi], _imports, root, tree[root].dirs,
                            tree[root].files)
       IN /\ _imports' = IF validators[vi] = "APIRegressionValidator"
                         THEN out.reg ELSE _imports
          /\ IF out.raised
             THEN /\ pc' = "raised"
                  /\ UNCHANGED <<todo, invalids, checked>>
             ELSE /\ pc' = "walk"
                  /\ todo' = [i \in 1..Len(out.dirs) |-> root \o <<out.dirs[i]>>]
                             \o Tail(todo)
                  /\ invalids' = invalids \o out.invalid
                  /\ checked' = (checked \/ out.checked)
    /\ UNCHANGED <<tree, validators, vi, return_code, stderr, results, snapshots,
                   contribs, parsed>>

\* os.walk is exhausted: validate returns (success, msg), and main's loop
\* body handles it and goes on to the next validator, or returns.
ValidateReturn ==
    /\ pc = "walk"
    /\ todo = <<>>
    /\ LET result == ValidateResult(validators[vi], invalids) IN
       /\ results' = Append(results, result)
       /\ return_code' = IF ~result.success THEN 1 ELSE return_code
       /\ stderr' = stderr \o Written(result)
    /\ snapshots' = Append(snapshots, _imports)
    /\ vi' = vi + 1
    /\ pc' = IF vi = Len(validators) THEN "done" ELSE "call"
    /\ UNCHANGED <<tree, validators, todo, invalids, _imports, checked,
                   contribs, parsed>>

Next == CallValidate \/ WalkStep \/ ValidateReturn

Spec == Init /\ [][Next]_vars

(***************************************************************************)
(* The repeated-run driver: validate is called MaxRuns times on one        *)
(* APIRegressionValidator object (constructed once, so self._imports is    *)
(* set to {} once), each result handled as main handles it.                *)
(***************************************************************************)
InitTwice ==
    /\ tree \in Trees
    /\ validators = [i \in 1..MaxRuns |-> "APIRegressionValidator"]
    /\ vi = 1
    /\ pc = "call"
    /\ todo = <<>>
    /\ invalids = <<>>
    /\ _imports = EmptyRegistry
    /\ return_code = 0
    /\ stderr = <<>>
    /\ results = <<>>
    /\ snapshots = <<>>
    /\ checked = FALSE
    /\ contribs = <<>>
    /\ parsed = <<>>

SpecTwice == InitTwice /\ [][Next]_vars

(***************************************************************************)
(* The _add_imports driver: on one APIRegressionValidator object, whose    *)
(* registry starts empty (line 256), _add_imports is called up to MaxCalls *)
(* times with the normalized imports of a file and the file's package.     *)
(***************************************************************************)
\* Library-rooted import paths, as _parse_file returns them.
AddPaths ==
    { <<"skbio">>,
      <<"skbio", "foo">>,
      <<"skbio", "a", "foo">>,
      <<"skbio", "x", "foo">>,
      <<"skbio", "b", "mod", "foo">>,
      <<"skbio", "a", "sub", "mod", "bar">> }

\* The imports of one file: one import, or two (of two symbols, of one symbol).
AddImportLists ==
    { <<path>> : path \in AddPaths }
    \cup { << <<"skbio", "b", "mod", "foo">>, <<"skbio", "a", "sub", "mod", "bar">> >>,
           << <<"skbio", "b", "mod", "foo">>, <<"skbio", "a", "foo">> >> }

AddPackages == { <<"skbio">>, <<"skbio", "a">>, <<"skbio", "a", "sub">> }

\* Lines 287-292 for each import_ of one call: (key, value).
OffersOf(imports, package) ==
    [i \in 1..Len(imports) |->
        [key |-> Last(imports[i]), value |-> Candidate(imports[i], package)]]

InitAdd ==
    /\ tree = NoTree
    /\ validators = <<"APIRegressionValidator">>
    /\ vi = 1
    /\ pc = "add"
    /\ todo = <<>>
    /\ invalids = <<>>
    /\ _imports = EmptyRegistry
    /\ return_code = 0
    /\ stderr = <<>>
    /\ results = <<>>
    /\ snapshots = <<>>
    /\ checked = FALSE
    /\ contribs = <<>>
    /\ parsed = <<>>

\* One call self._add_imports(imports, package).
AddImports ==
    /\ pc = "add"
    /\ Len(contribs) < MaxCalls
    /\ \E imports \in AddImportLists, package \in AddPackages :
           /\ _imports' = _add_imports(_imports, imports, package)
           /\ contribs' = Append(contribs,
                                 [imports |-> imports, package |-> package,
                                  offers |-> OffersOf(imports, package)])
    /\ UNCHANGED <<tree, validators, vi, pc, todo, invalids, return_code, stderr,
                   results, snapshots, checked, parsed>>

NextAdd == AddImports

SpecAdd == InitAdd /\ [][NextAdd]_vars

(***************************************************************************)
(* The _parse_file driver: _parse_file is called up to MaxParses times on  *)
(* a file of one top-level statement in a directory root.                  *)
(***************************************************************************)
ParseRoots == { ROOT, <<"skbio", "a">>, <<"skbio", "a", "tests">> }

ParseNodes ==
    { Rel(l, TRUE, m, "foo") : l \in 1..MaxLevel, m \in {<<"mod">>, <<"sub", "mod">>} }
    \cup { Rel(l, FALSE, <<>>, "foo") : l \in 1..MaxLevel }
    \cup { From(<<"skbio", "a", "mod">>, "foo"), Imp(<<"skbio", "a">>) }

InitParse ==
    /\ tree = NoTree
    /\ validators = <<"APIRegressionValidator">>
    /\ vi = 1
    /\ pc = "parse"
    /\ todo = <<>>
    /\ invalids = <<>>
    /\ _imports = EmptyRegistry
    /\ return_code = 0
    /\ stderr = <<>>
    /\ results = <<>>
    /\ snapshots = <<>>
    /\ checked = FALSE
    /\ contribs = <<>>
    /\ parsed = <<>>

\* One call self._parse_file(fp, root): it returns a list or raises.
ParseFile ==
    /\ pc = "parse"
    /\ Len(parsed) < MaxParses
    /\ \E root \in ParseRoots, node \in ParseNodes :
           LET f == Py("mod", Parses(<<node>>)) IN
           parsed' = Append(parsed,
                            [root |-> root, node |-> node,
                             raised |-> ParseRaises(f),
                             imports |-> IF ParseRaises(f) THEN <<>>
                                         ELSE _parse_file(f, root)])
    /\ UNCHANGED <<tree, validators, vi, pc, todo, invalids, _imports, return_code,
                   stderr, results, snapshots, checked, contribs>>

NextParse == ParseFile

SpecParse == InitParse /\ [][NextParse]_vars

(***************************************************************************)
(* What the tree holds, for the statements below.                          *)
(***************************************************************************)
Range(s) == {s[i] : i \in 1..Len(s)}

IsTestDir(d) == SplitTail(d) = "tests"

\* The .py files of directory d (indices into its listing).
PyFiles(d) == {i \in 1..Len(tree[d].files) : tree[d].files[i].ext = ".py"}

InitFiles(d) == {i \in PyFiles(d) : tree[d].files[i].base = "__init__"}

\* The library import records of file i of d (none when it cannot be parsed).
FileImports(d, i) ==
    IF ParseRaises(tree[d].files[i]) THEN {}
    ELSE Range(_parse_file(tree[d].files[i], d))

\* The package path of file i of d: a package-marker file adds no segment.
PackageOf(d, i) ==
    IF tree[d].files[i].base = "__init__" THEN d ELSE d \o <<tree[d].files[i].base>>

\* The validate calls on an APIRegressionValidator that have returned.
ApiReturned ==
    {i \in 1..Len(results) : validators[i] = "APIRegressionValidator"}

\* The flagged items of a returned report.
Flagged(i) == {results[i].msg[j].item : j \in 2..Len(results[i].msg)}

ApiRunning ==
    vi \in 1..Len(validators) /\ validators[vi] = "APIRegressionValidator"

(***************************************************************************)
(* C1.  During one validate call of APIRegressionValidator, once a test    *)
(* import has been looked up with _minimal_import, self._imports is never  *)
(* modified again: the registry is complete before the first check.        *)
(***************************************************************************)
C1_RegistryFrozenAfterFirstCheck ==
    [][(ApiRunning /\ checked) => (_imports' = _imports)]_vars

(***************************************************************************)
(* C2.  Every violation emitted has a used import with strictly more       *)
(* segments than the minimal import reported for it: a test import with    *)
(* fewer segments than the registry's path yields no line                  *)
(* 'used => minimal'.                                                      *)
(***************************************************************************)
C2_ViolationOnlyWhenStrictlyLonger ==
    \A i \in 1..Len(invalids) :
        invalids[i].minimal # NoPath
            => Len(invalids[i].used) > Len(invalids[i].minimal)

(***************************************************************************)
(* C3.  When the API check has returned: if the __init__ file of package   *)
(* d imports symbol s from a deeper module, every test file of the tree    *)
(* that imports s through a path longer than d.s is flagged, with a        *)
(* minimal import as long as d.s, whatever the listing order.  (Stated for *)
(* the packages d for which d.s is the shortest candidate any file of the  *)
(* tree offers for s, the case in which 'the length of package.s' is the   *)
(* length of the shortest path.)                                           *)
(***************************************************************************)
NoShorterOffer(s, n) ==
    \A d \in DOMAIN tree : \A i \in PyFiles(d) : \A imp \in FileImports(d, i) :
        Last(imp) = s => Len(Candidate(imp, PackageOf(d, i))) >= n

C3_ReexportedSymbolFlaggedEverywhere ==
    \A r \in ApiReturned :
    \A d \in DOMAIN tree : \A i \in InitFiles(d) : \A imp \in FileImports(d, i) :
        (Len(imp) > Len(d) + 1 /\ NoShorterOffer(Last(imp), Len(d) + 1)) =>
            \A t \in DOMAIN tree : \A g \in PyFiles(t) : \A used \in FileImports(t, g) :
                (IsTestDir(t) /\ Last(used) = Last(imp) /\ Len(used) > Len(d) + 1) =>
                    \E it \in Flagged(r) :
                        /\ it.fp = FilePath(t, tree[t].files[g])
                        /\ it.used = used
                        /\ Len(it.minimal) = Len(d) + 1

(***************************************************************************)
(* C4.  A symbol imported only by files of 'tests' directories (their      *)
(* __init__.py included) never has a registry entry, and no test import of *)
(* such a symbol is ever flagged.                                          *)
(***************************************************************************)
\* The symbols some file outside the 'tests' directories imports.
NonTestSymbols ==
    UNION { UNION { {Last(imp) : imp \in FileImports(d, i)} : i \in PyFiles(d) } :
            d \in {e \in DOMAIN tree : ~IsTestDir(e)} }

C4_TestOnlySymbolNeverRegistered ==
    /\ \A key \in DOMAIN _imports : key \in NonTestSymbols
    /\ \A i \in 1..Len(invalids) :
           invalids[i].used # NoPath => Last(invalids[i].used) \in NonTestSymbols

(***************************************************************************)
(* C5.  After a full walk of the API check, for every source file outside  *)
(* the 'tests' directories (package markers and ordinary modules alike)    *)
(* and every library import record in it, the registry holds an entry for  *)
(* the record's symbol with no more segments than the candidate the file   *)
(* offers.                                                                 *)
(***************************************************************************)
C5_RegistryCoversEveryNonTestFile ==
    \A r \in ApiReturned :
    \A d \in DOMAIN tree : \A i \in PyFiles(d) : \A imp \in FileImports(d, i) :
        ~IsTestDir(d) =>
            /\ Last(imp) \in DOMAIN snapshots[r]
            /\ Len(snapshots[r][Last(imp)]) <= Len(Candidate(imp, PackageOf(d, i)))
(***************************************************************************)
(* C6.  Two validate calls in succession on an unchanged tree, on the same *)
(* APIRegressionValidator object, return the same violation list and       *)
(* leave the same registry: nothing of the first run influences the        *)
(* second.                                                                 *)
(***************************************************************************)
C6_RepeatedRunsAgree ==
    \A i, j \in ApiReturned :
        results[i] = results[j] /\ snapshots[i] = snapshots[j]

(***************************************************************************)
(* C7.  A source file that fails to parse does not stop the API check: the *)
(* walk goes on, and the check returns success = false with a report entry *)
(* for that file.                                                          *)
(***************************************************************************)
\* The file on which _validate raised: the first .py file of the listing on
\* which _parse_file raises.
Culprit(files) ==
    CHOOSE i \in 1..Len(files) :
        /\ files[i].ext = ".py" /\ ParseRaises(files[i])
        /\ \A j \in 1..(i - 1) : ~(files[j].ext = ".py" /\ ParseRaises(files[j]))

SyntaxErrorLeftValidate ==
    /\ pc = "raised"
    /\ ApiRunning
    /\ LET f == tree[Head(todo)].files[Culprit(tree[Head(todo)].files)]
       IN ~f.gone /\ ~f.src.parses

C7_ParseFailureIsReportedNotRaised ==
    /\ ~SyntaxErrorLeftValidate
    /\ \A r \in ApiReturned : \A d \in DOMAIN tree : \A i \in PyFiles(d) :
           (~tree[d].files[i].gone /\ ~tree[d].files[i].src.parses) =>
               /\ ~results[r].success
               /\ \E it \in Flagged(r) : it.fp = FilePath(d, tree[d].files[i])

(***************************************************************************)
(* C8.  No error raised while a check processes a file (a parse error, an  *)
(* unreadable or vanished file, a failed size query) leaves that check's   *)
(* validate call.                                                          *)
(***************************************************************************)
C8_NoErrorLeavesValidate == pc # "raised"

(***************************************************************************)
(* C9.  When the root directory does not exist, the run ends with a        *)
(* non-zero completion status.                                             *)
(***************************************************************************)
C9_MissingRootIsNonZero ==
    (ROOT \notin DOMAIN tree /\ pc = "done") => return_code # 0

(***************************************************************************)
(* C10.  main calls validate on all four validators, in list order and     *)
(* whatever the earlier results; it returns 1 if and only if some          *)
(* validator returned success = false, and sys.stderr holds exactly the    *)
(* failing validators' reports, each followed by a blank line.             *)
(***************************************************************************)
\* The number of validate calls main has made.
CallsMade == IF pc \in {"walk", "raised"} THEN vi ELSE vi - 1

RECURSIVE FailingReports(_)
FailingReports(rs) ==
    IF rs = <<>> THEN <<>>
    ELSE (IF Head(rs).success THEN <<>> ELSE Head(rs).msg \o <<BlankLine>>)
         \o FailingReports(Tail(rs))

C10_AllFourCalledAndStatus ==
    /\ pc \in {"done", "raised"} => CallsMade = Len(validators)
    /\ pc = "done" =>
           /\ Len(results) = Len(validators)
           /\ return_code = IF \E i \in 1..Len(results) : ~results[i].success
                            THEN 1 ELSE 0
           /\ stderr = FailingReports(results)

(***************************************************************************)
(* C11.  Whenever validate has returned: success is false if and only if   *)
(* some directory's _validate returned a flagged item (invalids, which the *)
(* walk extended in order, is not empty); a failing report is the reason   *)
(* line of the validator followed by exactly one indented line per flagged *)
(* item, in the order the walk produced them, and a passing report is      *)
(* empty.                                                                  *)
(***************************************************************************)
\* validate has just returned: its invalids are still in place.
JustReturned == pc \in {"call", "done"} /\ results # <<>>

C11_ReportIsReasonThenItemsInWalkOrder ==
    JustReturned =>
        LET n == Len(results)
            r == results[n]
        IN /\ r.success = (invalids = <<>>)
           /\ r.success => r.msg = <<>>
           /\ ~r.success =>
                  /\ Len(r.msg) = Len(invalids) + 1
                  /\ r.msg[1].fmt = "%s:"
                  /\ r.msg[1].reason = reason(validators[n])
                  /\ \A j \in 1..Len(invalids) :
                         /\ r.msg[j + 1].fmt = "    %s"
                         /\ r.msg[j + 1].item = invalids[j]

\* A validate call returned a failing report with several distinct items.
C11_Witness ==
    /\ JustReturned
    /\ Len(invalids) >= 2
    /\ invalids[1] # invalids[2]
    /\ ~results[Len(results)].success

(***************************************************************************)
(* C12, as stated.  On an empty tree (the root exists and has neither      *)
(* files nor subdirectories) each of the four checks returns success =     *)
(* true with an empty report, and main returns 0.                          *)
(***************************************************************************)
C12_EmptyTreePassesEveryCheck ==
    tree = EmptyTree =>
        /\ \A i \in 1..Len(results) : results[i].success /\ results[i].msg = <<>>
        /\ pc = "done" => return_code = 0

(***************************************************************************)
(* C12, amended.  On an empty tree ExecPermissionValidator,                *)
(* GeneratedCythonValidator and APIRegressionValidator return success =    *)
(* true with an empty report, InitValidator returns success = false with a *)
(* report of its reason line and one line flagging the root (which has no  *)
(* '__init__.py'), no call raises, and main returns 1 after all four.      *)
(***************************************************************************)
C12_EmptyTreeFailsOnlyInitValidator ==
    tree = EmptyTree =>
        /\ pc # "raised"
        /\ \A i \in 1..Len(results) :
               IF validators[i] = "InitValidator"
               THEN /\ ~results[i].success
                    /\ results[i].msg =
                           << ReasonLine(reason("InitValidator")),
                              ItemLine(Item(DirPath(ROOT), NoPath, NoPath)) >>
               ELSE /\ results[i].success
                    /\ results[i].msg = <<>>
        /\ pc = "done" => Len(results) = 4 /\ return_code = 1

\* main has finished on the empty tree.
C12_Witness == tree = EmptyTree /\ pc = "done" /\ Len(results) = 4

(***************************************************************************)
(* C13.  In every step of the API check, each import of a test file of the *)
(* directory being visited that has as many segments as the path the       *)
(* registry holds for its symbol (the registry as the lookups of that step *)
(* see it) adds no violation for that file and import, whether or not the  *)
(* two paths are equal.                                                    *)
(***************************************************************************)
C13_EqualLengthImportNeverFlagged ==
    [][ (ApiRunning /\ pc = "walk" /\ todo # <<>> /\ pc' = "walk") =>
          LET d == Head(todo)
              added == SubSeq(invalids', Len(invalids) + 1, Len(invalids'))
          IN \A g \in PyFiles(d) : \A used \in FileImports(d, g) :
                 ( /\ Last(used) \in DOMAIN _imports'
                   /\ Len(_imports'[Last(used)]) = Len(used) )
                 => ~ \E k \in 1..Len(added) :
                          /\ added[k].fp = FilePath(d, tree[d].files[g])
                          /\ added[k].used = used ]_vars

\* The API check has returned on a tree whose tests directory was visited
\* last, and a test file imports a registered symbol through a path as long
\* as the registered one but different from it.
C13_Witness ==
    /\ pc = "done"
    /\ tree # NoTree
    /\ tree[ROOT].dirs = <<"b", "a">>
    /\ \E d \in DOMAIN tree : \E g \in PyFiles(d) : \E used \in FileImports(d, g) :
           /\ IsTestDir(d)
           /\ tree[d].files[g].base # "__init__"
           /\ Last(used) \in DOMAIN _imports
           /\ Len(_imports[Last(used)]) = Len(used)
           /\ _imports[Last(used)] # used

(***************************************************************************)
(* C18.  _parse_file returns no import whose first segment is not 'skbio'; *)
(* hence every path stored in the registry, and every used import of a     *)
(* violation of the API check, has 'skbio' as its first segment.           *)
(***************************************************************************)
\* The imports file i of d holds before the filter of lines 339-344.
RawImports(d, i) ==
    IF ParseRaises(tree[d].files[i]) THEN {}
    ELSE Range(AllImports(tree[d].files[i].src.body, d))

C18_OnlyLibraryRootedPaths ==
    /\ \A d \in DOMAIN tree : \A i \in PyFiles(d) : \A imp \in FileImports(d, i) :
           imp # <<>> /\ imp[1] = "skbio"
    /\ \A key \in DOMAIN _imports :
           _imports[key] # <<>> /\ _imports[key][1] = "skbio"
    /\ (ApiRunning /\ pc = "walk") =>
           \A k \in 1..Len(invalids) :
               invalids[k].used # <<>> /\ invalids[k].used[1] = "skbio"
    /\ \A r \in ApiReturned : \A it \in Flagged(r) :
           it.used # <<>> /\ it.used[1] = "skbio"

\* The API check has returned with a filled registry and a violation on a
\* tree in which a package-marker file and a test file both hold an import
\* that is not rooted at 'skbio'.
C18_Witness ==
    /\ pc = "done"
    /\ _imports # EmptyRegistry
    /\ \E r \in ApiReturned : Flagged(r) # {}
    /\ \E d \in DOMAIN tree : \E i \in InitFiles(d) : \E imp \in RawImports(d, i) :
           imp[1] # "skbio"
    /\ \E d \in DOMAIN tree : \E i \in PyFiles(d) \ InitFiles(d) :
           IsTestDir(d) /\ \E imp \in RawImports(d, i) : imp[1] # "skbio"

(***************************************************************************)
(* C19.  While InitValidator walks, no directory named 'data' or           *)
(* '__pycache__' below the root, and no directory inside one, is waiting   *)
(* to be visited or has been flagged; and when its validate returns, the   *)
(* directories flagged are exactly the directories of the tree outside     *)
(* 'data' and '__pycache__' whose files do not include '__init__.py'.      *)
(***************************************************************************)
\* d is, or lies inside, a directory below the root that is named 'data'
\* or '__pycache__'.
InSkipped(d) == \E k \in 2..Len(d) : d[k] \in {"data", "__pycache__"}

LacksInit(d) ==
    ~ \E i \in 1..Len(tree[d].files) :
          tree[d].files[i].base = "__init__" /\ tree[d].files[i].ext = ".py"

InitRunning ==
    vi \in 1..Len(validators) /\ validators[vi] = "InitValidator" /\ pc = "walk"

InitReturned == {i \in 1..Len(results) : validators[i] = "InitValidator"}

C19_SkippedDirsNeverVisitedOthersFlaggedIffNoInit ==
    /\ InitRunning =>
           /\ \A k \in 1..Len(todo) : ~InSkipped(todo[k])
           /\ \A k \in 1..Len(invalids) : ~InSkipped(invalids[k].fp.dir)
    /\ \A r \in InitReturned :
           {it.fp.dir : it \in Flagged(r)}
               = {d \in DOMAIN tree : ~InSkipped(d) /\ LacksInit(d)}

\* InitValidator has returned on a tree that has 'data' and '__pycache__'
\* directories without '__init__.py' and a directory inside 'data', having
\* flagged one visited directory and passed another.
C19_Witness ==
    /\ InitReturned # {}
    /\ \E d \in DOMAIN tree : SplitTail(d) = "data" /\ LacksInit(d)
    /\ \E d \in DOMAIN tree : SplitTail(d) = "__pycache__" /\ LacksInit(d)
    /\ \E d \in DOMAIN tree : InSkipped(d) /\ SplitTail(d) \notin {"data", "__pycache__"}
    /\ \E r \in InitReturned : \E d, e \in DOMAIN tree :
           /\ ~InSkipped(d) /\ ~InSkipped(e)
           /\ d \in {it.fp.dir : it \in Flagged(r)}
           /\ e \notin {it.fp.dir : it \in Flagged(r)}

(***************************************************************************)
(* The candidates the _add_imports driver has offered so far.              *)
(***************************************************************************)
\* (call, position) of every candidate offered.
OfferIds ==
    UNION { {<<c, i>> : i \in 1..Len(contribs[c].offers)} : c \in 1..Len(contribs) }

OfferAt(id) == contribs[id[1]].offers[id[2]]

OfferedKeys == {OfferAt(id).key : id \in OfferIds}

(***************************************************************************)
(* C14.  Across any sequence of _add_imports calls: a symbol that is in    *)
(* the registry stays in it, the segment count of its stored path never    *)
(* increases from one call to the next, and the stored path never has more *)
(* segments than any candidate that has been offered for the symbol.       *)
(***************************************************************************)
StoredNoLongerThanOffered ==
    \A id \in OfferIds :
        /\ OfferAt(id).key \in DOMAIN _imports
        /\ Len(_imports[OfferAt(id).key]) <= Len(OfferAt(id).value)

C14_RegistryOnlyShrinksPaths ==
    /\ []StoredNoLongerThanOffered
    /\ [][ \A key \in DOMAIN _imports :
               /\ key \in DOMAIN _imports'
               /\ Len(_imports'[key]) <= Len(_imports[key]) ]_vars

\* Three calls offered one symbol a path, then a shorter one (stored), then
\* a longer one (not stored).
C14_Witness ==
    /\ Len(contribs) = 3
    /\ \A c \in 1..3 : Len(contribs[c].offers) = 1
    /\ LET o1 == contribs[1].offers[1]
           o2 == contribs[2].offers[1]
           o3 == contribs[3].offers[1]
       IN /\ o1.key = o2.key /\ o2.key = o3.key
          /\ Len(o1.value) > Len(o2.value)
          /\ Len(o3.value) > Len(o2.value)
          /\ _imports[o1.key] = o2.value

(***************************************************************************)
(* C16.  The candidate computed for an import of a file of a package is    *)
(* the import path itself when the import has at most one segment more     *)
(* than the package, and the package path followed by the symbol           *)
(* otherwise; it never has more segments than the import path.  (The       *)
(* first candidate offered to the empty registry is what gets stored.)     *)
(***************************************************************************)
C16_CandidateIsImportOrPackagePlusSymbol ==
    /\ \A c \in 1..Len(contribs) : \A i \in 1..Len(contribs[c].imports) :
           LET import_ == contribs[c].imports[i]
               package == contribs[c].package
               value == contribs[c].offers[i].value
           IN /\ Len(import_) <= Len(package) + 1 => value = import_
              /\ Len(import_) > Len(package) + 1
                     => value = package \o <<import_[Len(import_)]>>
              /\ Len(value) <= Len(import_)
    /\ (Len(contribs) = 1 /\ Len(contribs[1].imports) = 1) =>
           LET import_ == contribs[1].imports[1]
               package == contribs[1].package
           IN _imports[import_[Len(import_)]]
                  = IF Len(import_) <= Len(package) + 1 THEN import_
                    ELSE package \o <<import_[Len(import_)]>>

\* The calls made offered an import kept as it is (with exactly one segment
\* more than its package) and an import cut down to package + symbol.
C16_Witness ==
    /\ \E id \in OfferIds :
           LET import_ == contribs[id[1]].imports[id[2]] IN
           /\ Len(import_) = Len(contribs[id[1]].package) + 1
           /\ OfferAt(id).value = import_
    /\ \E id \in OfferIds :
           LET import_ == contribs[id[1]].imports[id[2]] IN
           /\ Len(import_) > Len(contribs[id[1]].package) + 1
           /\ OfferAt(id).value # import_

(***************************************************************************)
(* C17.  Each candidate of a call changes the registry as follows: a       *)
(* symbol that is absent is inserted with the candidate; a symbol whose    *)
(* stored path has strictly more segments gets the candidate; a symbol     *)
(* whose stored path has as many or fewer segments keeps its path (so the  *)
(* first of several equally long paths stays); every other symbol's entry  *)
(* is left as it was.  A call applies this to its candidates in order.     *)
(***************************************************************************)
\* The registry the statement describes after one candidate.
AfterOffer(reg, o) ==
    [key \in DOMAIN reg \cup {o.key} |->
        IF key # o.key THEN reg[key]
        ELSE IF o.key \notin DOMAIN reg THEN o.value
        ELSE IF Len(reg[key]) > Len(o.value) THEN o.value
        ELSE reg[key]]

RECURSIVE AfterOffers(_, _)
AfterOffers(reg, offers) ==
    IF offers = <<>> THEN reg
    ELSE AfterOffers(AfterOffer(reg, Head(offers)), Tail(offers))

C17_InsertReplaceLongerKeepOtherwise ==
    [][ Len(contribs') = Len(contribs) + 1 =>
            _imports' = AfterOffers(_imports, contribs'[Len(contribs')].offers) ]_vars

\* Three calls of one candidate each for one symbol: an insertion, a
\* replacement by a shorter path, and an equally long different path that
\* is not stored; the first call also registered a second symbol, which
\* kept its entry.
C17_Witness ==
    /\ Len(contribs) = 3
    /\ Len(contribs[1].offers) = 2
    /\ Len(contribs[2].offers) = 1
    /\ Len(contribs[3].offers) = 1
    /\ LET o0 == contribs[1].offers[1]
           o1 == contribs[1].offers[2]
           o2 == contribs[2].offers[1]
           o3 == contribs[3].offers[1]
       IN /\ o0.key # o1.key
          /\ o0.key = o2.key /\ o2.key = o3.key
          /\ Len(o0.value) > Len(o2.value)
          /\ Len(o3.value) = Len(o2.value)
          /\ o3.value # o2.value
          /\ _imports[o2.key] = o2.value
          /\ _imports[o1.key] = o1.value

(***************************************************************************)
(* C20.  Starting from the empty registry, after any calls the symbols     *)
(* stored are the symbols offered, the segment count stored for a symbol   *)
(* is the minimum over all candidates offered for it, and replaying the    *)
(* same calls in any other order stores the same segment counts.           *)
(***************************************************************************)
MinOffered(key) ==
    CHOOSE n \in {Len(OfferAt(id).value) : id \in {j \in OfferIds : OfferAt(j).key = key}} :
        \A id \in OfferIds : OfferAt(id).key = key => n <= Len(OfferAt(id).value)

RECURSIVE Replay(_, _)
\* The registry after the calls order[1], ..., order[n] of contribs.
Replay(order, n) ==
    IF n = 0 THEN EmptyRegistry
    ELSE _add_imports(Replay(order, n - 1),
                      contribs[order[n]].imports, contribs[order[n]].package)

Lengths(reg) == [key \in DOMAIN reg |-> Len(reg[key])]

C20_StoredLengthIsMinimumInAnyOrder ==
    /\ DOMAIN _imports = OfferedKeys
    /\ \A key \in OfferedKeys : Len(_imports[key]) = MinOffered(key)
    /\ \A order \in Permutations(1..Len(contribs)) :
           Lengths(Replay(order, Len(contribs))) = Lengths(_imports)

\* Three calls after which another order of the same calls stores a
\* different path for a symbol (of the same length), and in which the
\* shortest candidate was not the first one offered.
C20_Witness ==
    /\ Len(contribs) = 3
    /\ \E order \in Permutations(1..3) :
           Replay(order, 3) # _imports
    /\ \E key \in OfferedKeys :
           Len(contribs[1].offers[1].value) > MinOffered(key)
               /\ contribs[1].offers[1].key = key

(***************************************************************************)
(* C15.  For every directory and every relative from-import of level       *)
(* N >= 1, with or without a module suffix ('from . import x' included),   *)
(* _parse_file returns what it returns for the equivalent absolute import: *)
(* the directory's dotted path without its last N - 1 segments, then the   *)
(* module suffix, then the imported name.                                  *)
(***************************************************************************)
\* The absolute from-import the statement calls equivalent.
EquivalentAbsolute(root, node) ==
    [kind |-> "ImportFrom", level |-> 0, hasModule |-> TRUE,
     module |-> SubSeq(root, 1, Len(root) - (node.level - 1)) \o node.module,
     names |-> node.names]

C15_RelativeImportResolvesLikeAbsolute ==
    \A c \in 1..Len(parsed) :
        parsed[c].node.level >= 1 =>
            /\ ~parsed[c].raised
            /\ parsed[c].imports
                   = _parse_file(Py("mod", Parses(<<EquivalentAbsolute(parsed[c].root,
                                                                        parsed[c].node)>>)),
                                 parsed[c].root)

====
